---- MODULE Spec2Model ----
(***************************************************************************)
(* Model of Context::poll (src/src/service.rs): the poll loop that drives  *)
(* the primary stream and the collection of items (jobs) of a Service.     *)
(*                                                                         *)
(* The primary stream, the jobs and the Service callbacks are the          *)
(* environment: what a poll yields and what a callback returns or          *)
(* registers is drawn from small sets.  One action is one step of poll:    *)
(* entry (start), the primary stream's poll with its callback, one         *)
(* iteration of the inner loop over items (poll, callback, compaction),    *)
(* the inner loop's exit and the not_ready test at the end of a sweep.     *)
(***************************************************************************)
EXTENDS Integers, Sequences, FiniteSets, TLC

\* ---------------------------------------------------------------- bounds
NItems == 2          \* the primary stream yields at most this many items
MaxJobs == 2         \* jobs ever registered (nregs is capped by it)
RingJobs == 3        \* the jobs of a collection whose polls are followed in order

\* ------------------------------------------------------------ vocabulary
\* enum Item: the six shapes of a job
Kinds == {"CtxFuture", "CtxSpawnFuture", "Future", "Stream", "FutStream", "Sink"}

\* the kinds Context::spawn, add_future, add_stream, add_fut_stream and
\* add_sink push
ApiKinds == {"CtxSpawnFuture", "Future", "Stream", "FutStream", "Sink"}

\* the kind the registration API of the specification adds as "nested task";
\* service.rs polls it but has no method that pushes it
NestedKinds == {"CtxFuture"}

\* the kinds Builder::add_future, add_stream and add_fut_stream push
BuilderKinds == {"Future", "Stream", "FutStream"}

\* the kinds whose poll receives the Service and the Context
CtxKinds == {"CtxFuture", "CtxSpawnFuture", "Sink"}

\* what a Service callback returns: Ok(Async::NotReady), Ok(Async::Ready(v))
\* or Err(e)
Rets == {"NotReady", "Ok", "Err"}

\* a job as registered: its kind
JobSpecs(kinds) == {[kind |-> k] : k \in kinds}

\* the jobs one callback registers, given the number registered so far
RegSeqs(n) ==
    IF n >= MaxJobs THEN {<< >>}
    ELSE {<< >>} \cup {<<s>> : s \in JobSpecs(ApiKinds \cup NestedKinds)}

\* self.items.push(Item::X(Box::new(fut))) for each registered job.  Besides
\* its kind an item carries history: how often it was polled in this sweep
\* and whether it is the stream a deferred stream resolved to.
NewJobs(specs) ==
    [k \in 1..Len(specs) |->
        [kind |-> specs[k].kind, polled |-> 0, deferred |-> FALSE]]

\* the history tag of a job poll during which regs were registered
Registered(regs) == IF Len(regs) > 0 THEN {"registered"} ELSE {}

\* the items of its that were not polled in this sweep
Unpolled(its) == Cardinality({k \in 1..Len(its) : its[k].polled = 0})

NoResult == [tag |-> "None", by |-> "none", src |-> "none"]
NotReadyResult == [tag |-> "NotReady", by |-> "poll", src |-> "none"]
NoCall == [fn |-> "none", src |-> "none", arg |-> "none", val |-> 0, ret |-> "none"]
NoPoll == [kind |-> "none", out |-> "none", at |-> 0, deferred |-> FALSE]

VARIABLES
    pc,         \* position in poll: "idle", "loop", "jobs", "check", "done"
    started,    \* Context.started
    items,      \* Context.items
    nregs,      \* jobs registered so far
    sent,       \* items the primary stream has yielded
    ended,      \* the primary stream has reported Ready(None)
    idx,        \* the local idx of poll
    len,        \* the local len of poll
    not_ready,  \* the local not_ready of poll
    ret,        \* what the last poll invocation returned
    nstart,     \* history: invocations of start
    nfinished,  \* history: invocations of finished: 0, 1, or 2 for more
    primCalls,  \* history: the items of the primary stream call was given
    firstFin,   \* history: Len(primCalls) at the first finished, -1 before
    lastCall,   \* history: the last callback invoked in this sweep
    ncalls,     \* history: invocations of call and finished in this sweep
    lastPoll,   \* history: the last job poll of this sweep
    primOut,    \* history: what the primary stream yielded in this sweep
    primPolls,  \* history: polls of the primary stream in this sweep
    progress,   \* history: what the jobs did in this sweep: "produced"
                \* a value, were "removed" (and the last item "swapped"
                \* into the place), were "replaced"; and whether a job
                \* was "registered" while a job was polled
    lost,       \* history: jobs that left items in this sweep without a poll
    nitems,     \* the number of items the primary stream yields at most
    parked,     \* history: the primary stream reported NotReady in the sweep
                \* that ended the last poll invocation, so it will wake the
                \* task; FALSE while poll runs
    ring,       \* Context.items with the identity of each job, where the
                \* order of the polls is followed
    ridx,       \* the local idx of poll over ring
    rlen,       \* the local len of poll over ring
    rpc,        \* where the loop over ring stands: "off", "jobs", "check"
    obs,        \* the stream job whose items are followed, 0 for none
    polls,      \* history: how often each job was polled in this sweep
    took,       \* history: the items obs yielded in this sweep
    ahead       \* history: for each job, the items obs yielded since the
                \* job was polled last

prog == <<pc, started, items, nregs, sent, ended, idx, len, not_ready, ret>>
life == <<nstart, nfinished, primCalls, firstFin>>
sweep == <<lastCall, ncalls, lastPoll, primOut, primPolls, progress, lost>>
env == <<nitems>>
ringv == <<ring, ridx, rlen, rpc, obs, polls, took, ahead>>
vars == <<prog, life, sweep, env, parked, ringv>>

\* Service::run: the Context as constructed, for a primary stream of at most
\* n items
Start(n) ==
    /\ nitems = n
    /\ parked = FALSE
    /\ pc = "idle"
    /\ started = FALSE
    /\ items = << >>
    /\ nregs = 0
    /\ sent = 0
    /\ ended = FALSE
    /\ idx = 0
    /\ len = 0
    /\ not_ready = TRUE
    /\ ret = NoResult
    /\ nstart = 0
    /\ nfinished = 0
    /\ primCalls = << >>
    /\ firstFin = -1
    /\ lastCall = NoCall
    /\ ncalls = 0
    /\ lastPoll = NoPoll
    /\ primOut = "none"
    /\ primPolls = 0
    /\ progress = {}
    /\ lost = 0

\* the identities of the jobs whose order is followed
Ids == 1..RingJobs

\* the order of the polls is not followed
NoRing ==
    /\ ring = << >>
    /\ ridx = 0
    /\ rlen = 0
    /\ rpc = "off"
    /\ obs = 0
    /\ polls = [y \in Ids |-> 0]
    /\ took = 0
    /\ ahead = [y \in Ids |-> 0]

Init == Start(NItems) /\ NoRing

\* ------------------------------------------------- the primary stream
\* what self.stream.poll() may yield: the next item, an error, NotReady, or
\* Ready(None), after which the stream yields no item.  A stream polled again
\* after Ready(None) reports Ready(None) again (as stream::iter and the
\* channel receivers do) or NotReady.
StreamOutcomes ==
    IF ended
    THEN {"NotReady", "End"}
    ELSE {"NotReady", "Err", "End"} \cup (IF sent < nitems THEN {"Item"} ELSE {})

\* a match that drops the items of the primary stream
StreamDispatch_ItemDropped(out) ==
    CASE out = "Item"     -> [fn |-> "none", arg |-> "none", clear |-> TRUE]
      [] out = "End"      -> [fn |-> "finished", arg |-> "none", clear |-> FALSE]
      [] out = "Err"      -> [fn |-> "call", arg |-> "Err", clear |-> FALSE]
      [] out = "NotReady" -> [fn |-> "none", arg |-> "none", clear |-> FALSE]

\* a match in which a primary stream that is not ready clears not_ready
StreamDispatch_NotReadyClears(out) ==
    CASE out = "Item"     -> [fn |-> "call", arg |-> "Ok", clear |-> TRUE]
      [] out = "End"      -> [fn |-> "finished", arg |-> "none", clear |-> FALSE]
      [] out = "Err"      -> [fn |-> "call", arg |-> "Err", clear |-> FALSE]
      [] out = "NotReady" -> [fn |-> "none", arg |-> "none", clear |-> TRUE]

\* the match on self.stream.poll(): which callback the outcome is forwarded
\* to and whether it clears not_ready
StreamDispatch(out) ==
    CASE out = "Item"     -> [fn |-> "call", arg |-> "Ok", clear |-> TRUE]
      [] out = "End"      -> [fn |-> "finished", arg |-> "none", clear |-> FALSE]
      [] out = "Err"      -> [fn |-> "call", arg |-> "Err", clear |-> FALSE]
      [] out = "NotReady" -> [fn |-> "none", arg |-> "none", clear |-> FALSE]

\* ------------------------------------------------------------- the jobs
\* what the poll of a job may yield
JobOutcomes(job) ==
    IF job.kind = "Stream"
    THEN {"NotReady", "Item", "End", "Err"}
    ELSE {"NotReady", "Ready", "Err"}

\* the jobs the poll of a job registers itself: only a poll that is handed
\* the Context can.  What a poll registers whose outcome poll returns at once
\* is dropped with the Context and is left out.
PollRegs(kind, term, n) ==
    IF kind \in CtxKinds /\ ~term THEN RegSeqs(n) ELSE {<< >>}

\* the jobs a callback registers: none when no callback runs (fn = "none");
\* what a callback registers that returns a definitive result is dropped with
\* the Context and is left out
CallRegs(fn, r, n) ==
    IF fn = "none" \/ r # "NotReady" THEN {<< >>} ELSE RegSeqs(n)

\* what one arm of the match on self.items[idx] yields: the pair (drop,
\* item) of the source (repl: item is Some(Item::Stream(..))), what it
\* forwarded to call (fwd), whether it cleared not_ready (clear) and whether
\* poll returns the outcome itself (term)
Arm(drop, fwd, clear, repl, term) ==
    [drop |-> drop, fwd |-> fwd, clear |-> clear, repl |-> repl, term |-> term]

\* (false, None)
Keep == Arm(FALSE, "none", FALSE, FALSE, FALSE)

\* a sink whose error is forwarded to call like a task's
PollSink_ErrForwarded(out) ==
    IF out = "NotReady" THEN Keep
    ELSE IF out = "Err" THEN Arm(TRUE, "Err", FALSE, FALSE, FALSE)
    ELSE Arm(FALSE, "none", FALSE, FALSE, TRUE)

\* Item::Sink: a value or an error is returned by poll as it is
PollSink(out) ==
    IF out = "NotReady" THEN Keep
    ELSE Arm(FALSE, "none", FALSE, FALSE, TRUE)

\* a stream that is dropped once it has yielded an item
PollStreamItem_ItemDrops(out) ==
    IF out = "Item" THEN Arm(TRUE, "Ok", TRUE, FALSE, FALSE)
    ELSE IF out = "End" THEN Arm(TRUE, "none", FALSE, FALSE, FALSE)
    ELSE IF out = "Err" THEN Arm(TRUE, "Err", FALSE, FALSE, FALSE)
    ELSE Keep

\* Item::Stream: an item is forwarded and the stream kept, the end drops it,
\* an error is forwarded and the stream dropped
PollStreamItem(out) ==
    IF out = "Item" THEN Arm(FALSE, "Ok", TRUE, FALSE, FALSE)
    ELSE IF out = "End" THEN Arm(TRUE, "none", FALSE, FALSE, FALSE)
    ELSE IF out = "Err" THEN Arm(TRUE, "Err", FALSE, FALSE, FALSE)
    ELSE Keep

\* Item::FutStream: the resolved stream replaces it, an error is forwarded
\* and the job dropped
PollFutStream(out) ==
    IF out = "Ready" THEN Arm(TRUE, "none", FALSE, TRUE, FALSE)
    ELSE IF out = "Err" THEN Arm(TRUE, "Err", FALSE, FALSE, FALSE)
    ELSE Keep

\* a plain task for which call is invoked while its poll is still pending
PollFuture_CallWhilePending(out) ==
    IF out = "Ready" THEN Arm(TRUE, "Ok", TRUE, FALSE, FALSE)
    ELSE IF out = "Err" THEN Arm(TRUE, "Err", FALSE, FALSE, FALSE)
    ELSE Arm(FALSE, "Ok", FALSE, FALSE, FALSE)

\* a plain task that stays registered after its error was forwarded
PollFuture_ErrKept(out) ==
    IF out = "Ready" THEN Arm(TRUE, "Ok", TRUE, FALSE, FALSE)
    ELSE IF out = "Err" THEN Arm(FALSE, "Err", FALSE, FALSE, FALSE)
    ELSE Keep

\* Item::Future: the value or the error is forwarded and the job dropped
PollFuture(out) ==
    IF out = "Ready" THEN Arm(TRUE, "Ok", TRUE, FALSE, FALSE)
    ELSE IF out = "Err" THEN Arm(TRUE, "Err", FALSE, FALSE, FALSE)
    ELSE Keep

\* Item::CtxFuture: as Item::Future
PollCtxFuture(out) ==
    IF out = "Ready" THEN Arm(TRUE, "Ok", TRUE, FALSE, FALSE)
    ELSE IF out = "Err" THEN Arm(TRUE, "Err", FALSE, FALSE, FALSE)
    ELSE Keep

\* a spawned job whose error is forwarded to call like a task's
PollCtxSpawnFuture_ErrForwarded(out) ==
    IF out = "Ready" THEN Arm(TRUE, "none", TRUE, FALSE, FALSE)
    ELSE IF out = "Err" THEN Arm(TRUE, "Err", FALSE, FALSE, FALSE)
    ELSE Keep

\* Item::CtxSpawnFuture: completion and error both drop the job, nothing is
\* forwarded
PollCtxSpawnFuture(out) ==
    IF out = "Ready" THEN Arm(TRUE, "none", TRUE, FALSE, FALSE)
    ELSE IF out = "Err" THEN Arm(TRUE, "none", FALSE, FALSE, FALSE)
    ELSE Keep

\* the match on self.items[idx]
Dispatch(kind, out) ==
    CASE kind = "Sink"           -> PollSink(out)
      [] kind = "Stream"         -> PollStreamItem(out)
      [] kind = "FutStream"      -> PollFutStream(out)
      [] kind = "Future"         -> PollFuture(out)
      [] kind = "CtxFuture"      -> PollCtxFuture(out)
      [] kind = "CtxSpawnFuture" -> PollCtxSpawnFuture(out)

\* a deferred stream that resolves to an item polled as a plain task
Resolve_AsFuture(job) == [kind |-> "Future", polled |-> 0, deferred |-> TRUE]

\* Item::Stream(val): the item a resolved deferred stream is wrapped in
Resolve(job) == [kind |-> "Stream", polled |-> 0, deferred |-> TRUE]

\* a compaction that keeps the length cached before the poll
Compact_StaleLen(its, i, l, drop, item) ==
    LET pushed == its \o item
        n == Len(pushed)
    IN  IF drop
        THEN IF i >= l - 1
             THEN [items |-> SubSeq(pushed, 1, n - 1), idx |-> i,
                   len |-> l - 1, brk |-> TRUE]
             ELSE [items |-> [SubSeq(pushed, 1, n - 1) EXCEPT ![i + 1] = pushed[n]],
                   idx |-> i, len |-> l - 1, brk |-> FALSE]
        ELSE [items |-> pushed, idx |-> i + 1, len |-> l, brk |-> FALSE]

\* a compaction that advances idx past the item it swapped in
Compact_SkipSwapped(its, i, l, drop, item) ==
    LET pushed == its \o item
        n == Len(pushed)
    IN  IF drop
        THEN IF i >= n - 1
             THEN [items |-> SubSeq(pushed, 1, n - 1), idx |-> i,
                   len |-> n - 1, brk |-> TRUE]
             ELSE [items |-> [SubSeq(pushed, 1, n - 1) EXCEPT ![i + 1] = pushed[n]],
                   idx |-> i + 1, len |-> n - 1, brk |-> FALSE]
        ELSE [items |-> pushed, idx |-> i + 1, len |-> n, brk |-> FALSE]

\* a compaction that drops the last item in place of the polled one
Compact_DropLast(its, i, l, drop, item) ==
    LET pushed == its \o item
        n == Len(pushed)
    IN  IF drop
        THEN IF i >= n - 1
             THEN [items |-> SubSeq(pushed, 1, n - 1), idx |-> i,
                   len |-> n - 1, brk |-> TRUE]
             ELSE [items |-> SubSeq(pushed, 1, n - 1),
                   idx |-> i + 1, len |-> n - 1, brk |-> FALSE]
        ELSE [items |-> pushed, idx |-> i + 1, len |-> n, brk |-> FALSE]

\* a compaction that pops the last item without decrementing the length
Compact_PopKeepsLen(its, i, l, drop, item) ==
    LET pushed == its \o item
        n == Len(pushed)
    IN  IF drop
        THEN IF i >= n - 1
             THEN [items |-> SubSeq(pushed, 1, n - 1), idx |-> i,
                   len |-> n, brk |-> TRUE]
             ELSE [items |-> [SubSeq(pushed, 1, n - 1) EXCEPT ![i + 1] = pushed[n]],
                   idx |-> i, len |-> n - 1, brk |-> FALSE]
        ELSE [items |-> pushed, idx |-> i + 1, len |-> n, brk |-> FALSE]

\* a compaction that leaves idx where it is when the polled job stays
Compact_NoAdvance(its, i, l, drop, item) ==
    LET pushed == its \o item
        n == Len(pushed)
    IN  IF drop
        THEN IF i >= n - 1
             THEN [items |-> SubSeq(pushed, 1, n - 1), idx |-> i,
                   len |-> n - 1, brk |-> TRUE]
             ELSE [items |-> [SubSeq(pushed, 1, n - 1) EXCEPT ![i + 1] = pushed[n]],
                   idx |-> i, len |-> n - 1, brk |-> FALSE]
        ELSE [items |-> pushed, idx |-> i, len |-> n, brk |-> FALSE]

\* the tail of one inner-loop iteration: push the new item if any, read the
\* length again, then drop the polled job by swapping the last item into its
\* place (or popping it when it is the last) or advance idx.  l is the length
\* cached before the poll.
Compact(its, i, l, drop, item) ==
    LET pushed == its \o item
        n == Len(pushed)
    IN  IF drop
        THEN IF i >= n - 1
             THEN [items |-> SubSeq(pushed, 1, n - 1), idx |-> i,
                   len |-> n - 1, brk |-> TRUE]
             ELSE [items |-> [SubSeq(pushed, 1, n - 1) EXCEPT ![i + 1] = pushed[n]],
                   idx |-> i, len |-> n - 1, brk |-> FALSE]
        ELSE [items |-> pushed, idx |-> i + 1, len |-> n, brk |-> FALSE]

\* an inner loop whose break leads back to the poll of the primary stream
LoopHead_Repoll(i, l) == IF i >= l THEN "loop" ELSE "jobs"

\* if idx >= len { break }: where the head of the inner loop leads
LoopHead(i, l) == IF i >= l THEN "check" ELSE "jobs"

\* a poll that returns only the failures of a callback
Returns_OnlyErr(r) == r = "Err"

\* Ok(Async::NotReady) => (), val => return val: whether poll returns what
\* the callback returned
Returns(r) == r # "NotReady"

\* the count of the invocations of finished after one more: counted up to
\* "more than one"
Again(n) == IF n = 0 THEN 1 ELSE 2

\* a poll that runs start on every invocation
FirstPoll_Always(st) == TRUE

\* if !self.started: whether this invocation of poll runs start
FirstPoll(st) == ~st

\* a poll that turns every definitive result into a failure
Definitive_AlwaysErr(r, by, src) == [tag |-> "Err", by |-> by, src |-> src]

\* the result poll returns when a callback returns r: val => return val
Definitive(r, by, src) == [tag |-> r, by |-> by, src |-> src]

\* one invocation of a Service callback, as recorded
Invocation(fn, src, arg, val, r) ==
    [fn |-> fn, src |-> src, arg |-> arg, val |-> val, ret |-> r]

\* Context::run hands the Context to the reactor, which drops it, and its
\* items with it, as soon as poll has returned a definitive result
Dropped == << >>

\* ---------------------------------------------------------- the actions
\* Builder::add_future, add_stream, add_fut_stream: a job pushed before the
\* Context is run
BuilderAdd ==
    /\ pc = "idle"
    /\ ~started
    /\ nregs < MaxJobs
    /\ \E s \in JobSpecs(BuilderKinds) :
          items' = items \o NewJobs(<<s>>)
    /\ nregs' = nregs + 1
    /\ UNCHANGED <<pc, started, sent, ended, idx, len, not_ready, ret, life, sweep>>
    /\ UNCHANGED <<env, parked, ringv>>

\* poll is entered: on the first invocation started is set and start runs,
\* which may register jobs
PollEnter ==
    /\ pc = "idle"
    /\ IF FirstPoll(started)
       THEN \E regs \in RegSeqs(nregs) :
               /\ started' = TRUE
               /\ nstart' = nstart + 1
               /\ lastCall' = Invocation("start", "none", "none", 0, "none")
               /\ items' = items \o NewJobs(regs)
               /\ nregs' = nregs + Len(regs)
       ELSE UNCHANGED <<started, nstart, lastCall, items, nregs>>
    /\ pc' = "loop"
    /\ ret' = NoResult
    /\ UNCHANGED <<ncalls, sent, ended, idx, len, not_ready, nfinished, primCalls,
                   firstFin, lastPoll, primOut, primPolls, progress, lost>>
    /\ parked' = FALSE
    /\ UNCHANGED <<env, ringv>>

\* the head of the outer loop: not_ready = true, the primary stream is polled
\* once, its outcome is forwarded to call or finished, and either poll
\* returns the callback's definitive result or the inner loop is set up and
\* its head tested (if idx >= len { break })
PollStream ==
    /\ pc = "loop"
    /\ \E out \in StreamOutcomes :
       LET d == StreamDispatch(out) IN
       \E r \in (IF d.fn = "none" THEN {"NotReady"} ELSE Rets) :
       \E regs \in CallRegs(d.fn, r, nregs) :
          /\ sent' = IF out = "Item" THEN sent + 1 ELSE sent
          /\ ended' = (ended \/ out = "End")
          /\ not_ready' = ~d.clear
          /\ lastCall' = IF d.fn = "none" THEN lastCall
                         ELSE Invocation(d.fn, "primary", d.arg,
                                         IF out = "Item" THEN sent + 1 ELSE 0, r)
          /\ ncalls' = IF d.fn = "none" THEN ncalls ELSE ncalls + 1
          /\ primCalls' = IF d.fn = "call" /\ d.arg = "Ok"
                          THEN Append(primCalls, sent + 1) ELSE primCalls
          /\ nfinished' = IF d.fn = "finished" THEN Again(nfinished) ELSE nfinished
          /\ firstFin' = IF d.fn = "finished" /\ nfinished = 0
                         THEN Len(primCalls) ELSE firstFin
          /\ nregs' = nregs + Len(regs)
          /\ primOut' = out
          /\ primPolls' = primPolls + 1
          /\ IF ~Returns(r)
             THEN /\ items' = items \o NewJobs(regs)
                  /\ idx' = 0
                  /\ len' = Len(items')
                  /\ pc' = LoopHead(0, Len(items'))
                  /\ ret' = ret
             ELSE /\ pc' = "done"
                  /\ ret' = Definitive(r, d.fn, "primary")
                  /\ items' = Dropped
                  /\ UNCHANGED <<idx, len>>
    /\ UNCHANGED <<started, nstart, lastPoll, progress, lost, env, parked, ringv>>

\* one iteration of the inner loop: items[idx] is polled, its outcome is
\* dispatched (returned, forwarded to call, or neither), the collection is
\* compacted and the head of the loop is tested again
PollJob ==
    /\ pc = "jobs"
    /\ idx < len
    /\ LET job == items[idx + 1] IN
       \E out \in JobOutcomes(job) :
       LET d == Dispatch(job.kind, out) IN
       \E pregs \in PollRegs(job.kind, d.term, nregs) :
       LET
           n1 == nregs + Len(pregs)
           polled == [items EXCEPT ![idx + 1].polled = @ + 1]
           its1 == polled \o NewJobs(pregs)
       IN
       \E r \in (IF d.fwd = "none" THEN {"NotReady"} ELSE Rets) :
       \E cregs \in CallRegs(d.fwd, r, n1) :
       LET its2 == its1 \o NewJobs(cregs)
           item == IF d.repl THEN <<Resolve(job)>> ELSE << >>
           c == Compact(its2, idx, len, d.drop, item)
       IN
          /\ lastPoll' = [kind |-> job.kind, out |-> out, at |-> idx,
                          deferred |-> job.deferred]
          /\ progress' = progress
                \cup (IF out \in {"Item", "Ready"} THEN {"produced"} ELSE {})
                \cup (IF d.drop /\ ~d.repl THEN {"removed"} ELSE {})
                \cup (IF d.drop /\ ~d.repl /\ ~c.brk THEN {"swapped"} ELSE {})
                \cup (IF d.repl THEN {"replaced"} ELSE {})
                \cup Registered(pregs \o cregs)
          /\ nregs' = n1 + Len(cregs)
          /\ lastCall' = IF d.fwd = "none" THEN lastCall
                         ELSE Invocation("call", job.kind, d.fwd, 0, r)
          /\ ncalls' = IF d.fwd = "none" THEN ncalls ELSE ncalls + 1
          /\ IF d.term
             THEN /\ pc' = "done"
                  /\ ret' = Definitive(IF out = "Ready" THEN "Ok" ELSE "Err",
                                       "sink", job.kind)
                  /\ items' = Dropped
                  /\ UNCHANGED <<idx, len, not_ready, lost>>
             ELSE IF Returns(r)
             THEN /\ pc' = "done"
                  /\ ret' = Definitive(r, "call", job.kind)
                  /\ items' = Dropped
                  /\ not_ready' = (not_ready /\ ~d.clear)
                  /\ UNCHANGED <<idx, len, lost>>
             ELSE /\ items' = c.items
                  /\ idx' = c.idx
                  /\ len' = c.len
                  /\ pc' = IF c.brk THEN "check" ELSE LoopHead(c.idx, c.len)
                  /\ not_ready' = (not_ready /\ ~d.clear)
                  /\ lost' = lost + (Unpolled(its2 \o item) - Unpolled(c.items))
                  /\ ret' = ret
    /\ UNCHANGED <<started, sent, ended, life, primOut, primPolls, env, parked, ringv>>

\* the sweep is over: the locals of the loop body go out of scope
LeaveSweep ==
    /\ idx' = 0
    /\ len' = 0
    /\ not_ready' = TRUE
    /\ items' = [k \in 1..Len(items) |-> [items[k] EXCEPT !.polled = 0]]
    /\ lastCall' = NoCall
    /\ ncalls' = 0
    /\ lastPoll' = NoPoll
    /\ primOut' = "none"
    /\ primPolls' = 0
    /\ progress' = {}
    /\ lost' = 0
    /\ UNCHANGED <<started, nregs, sent, ended, life, env, ringv>>

\* if not_ready { return Ok(Async::NotReady) }: poll suspends; the primary
\* stream wakes the task only if its poll reported NotReady
Suspend ==
    /\ pc = "check"
    /\ not_ready
    /\ pc' = "idle"
    /\ ret' = NotReadyResult
    /\ parked' = (primOut = "NotReady")
    /\ LeaveSweep

\* otherwise the outer loop runs another sweep
NextSweep ==
    /\ pc = "check"
    /\ ~not_ready
    /\ pc' = "loop"
    /\ ret' = ret
    /\ parked' = parked
    /\ LeaveSweep

Next ==
    \/ BuilderAdd
    \/ PollEnter
    \/ PollStream
    \/ PollJob
    \/ Suspend
    \/ NextSweep

Spec == Init /\ [][Next]_vars

\* ------------------------------------------- the doubling scenario
\* the items of the primary stream in the scenario
ScenarioItems == <<1, 2, 3>>

\* the accumulator of a Service whose call pushes twice each item it is given
Doubled(calls) == [k \in 1..Len(calls) |-> 2 * calls[k]]

\* the primary stream of the scenario yields its items (between polls that
\* find none ready), never fails, and ends after the last; call returns
\* NotReady and finished returns Ok(Ready(accumulator))
ScenarioStream ==
    /\ primOut' \in (IF sent < nitems THEN {"Item", "NotReady"} ELSE {"End", "NotReady"})
    /\ primOut' = "Item" => lastCall'.ret = "NotReady"
    /\ primOut' = "End" => lastCall'.ret = "Ok"

\* the jobs registered besides, if any, have nothing ready
IdleJobs == lastPoll'.out = "NotReady"

InitScenario == Start(Len(ScenarioItems)) /\ NoRing

ScenarioNext ==
    \/ BuilderAdd
    \/ PollEnter
    \/ PollStream /\ ScenarioStream
    \/ PollJob /\ IdleJobs
    \/ Suspend
    \/ NextSweep

SpecScenario == InitScenario /\ [][ScenarioNext]_vars

\* ------------------------------------------- poll under a scheduler
\* the task can be woken: a source whose last poll reported NotReady may
\* become ready.  When poll has returned NotReady every job left in the
\* collection reported NotReady in the last sweep; the primary stream did
\* if parked.
Woken == parked \/ Len(items) > 0

\* the scheduler invokes poll a first time, and again only when the task is
\* woken
LivePollEnter ==
    /\ FirstPoll(started) \/ Woken
    /\ PollEnter

LiveNext ==
    \/ BuilderAdd
    \/ LivePollEnter
    \/ PollStream
    \/ PollJob
    \/ Suspend
    \/ NextSweep

\* poll, once invoked, runs until it returns; the scheduler invokes poll the
\* first time and whenever the primary stream, having reported NotReady,
\* wakes the task; and the primary stream, polled again and again while it
\* has items left, yields one
Fairness ==
    /\ WF_vars(PollStream)
    /\ WF_vars(PollJob)
    /\ WF_vars(Suspend)
    /\ WF_vars(NextSweep)
    /\ WF_vars(LivePollEnter /\ (FirstPoll(started) \/ parked))
    /\ SF_vars(PollStream /\ primOut' = "Item")

SpecLive == Init /\ [][LiveNext]_vars /\ Fairness

\* ------------------------------------------- poll once invoked
\* poll, once invoked, runs each step of its body: nothing in it blocks; when
\* it is invoked is left to the scheduler
PollRuns ==
    /\ WF_vars(PollStream)
    /\ WF_vars(PollJob)
    /\ WF_vars(Suspend)
    /\ WF_vars(NextSweep)

SpecTerm == Init /\ [][Next]_vars /\ PollRuns

\* ------------------------------------------- the order of the polls
\* the kinds of the jobs whose order is followed: streams and plain tasks
RingKinds == {"Stream", "Future"}

\* a collection of up to RingJobs jobs, registered in the order of their
\* identities, one of its streams being followed
RingInputs ==
    {r \in [its : UNION {[1..n -> RingKinds] : n \in 1..RingJobs}, obs : Ids] :
        /\ r.obs \in DOMAIN r.its
        /\ r.its[r.obs] = "Stream"}

\* the Context as poll finds it at the head of the inner loop of a sweep
InitRing ==
    /\ Start(NItems)
    /\ \E r \in RingInputs :
          /\ ring = [k \in DOMAIN r.its |-> [id |-> k, kind |-> r.its[k]]]
          /\ obs = r.obs
    /\ ridx = 0
    /\ rlen = Len(ring)
    /\ rpc = LoopHead(0, Len(ring))
    /\ polls = [y \in Ids |-> 0]
    /\ took = 0
    /\ ahead = [y \in Ids |-> 0]

\* one iteration of the inner loop over ring: ring[idx] is polled, its
\* outcome dispatched, the collection compacted and the head of the loop
\* tested again.  call answers NotReady and registers nothing, so poll goes
\* on.
RingPoll ==
    /\ rpc = "jobs"
    /\ ridx < rlen
    /\ LET job == ring[ridx + 1] IN
       \E out \in JobOutcomes(job) :
       LET d == Dispatch(job.kind, out)
           c == Compact(ring, ridx, rlen, d.drop, << >>)
           item == job.id = obs /\ out = "Item"
       IN
          /\ ring' = c.items
          /\ ridx' = c.idx
          /\ rlen' = c.len
          /\ rpc' = IF c.brk THEN "check" ELSE LoopHead(c.idx, c.len)
          /\ polls' = [polls EXCEPT ![job.id] = Again(@)]
          /\ took' = IF item THEN Again(took) ELSE took
          /\ ahead' = [y \in Ids |->
                          IF y = job.id THEN 0
                          ELSE IF item /\ ahead[y] < RingJobs THEN ahead[y] + 1
                          ELSE ahead[y]]
    /\ UNCHANGED <<prog, life, sweep, env, parked, obs>>

\* the inner loop is left and the outer loop runs another sweep: the primary
\* stream is polled and the inner loop set up again
RingSweep ==
    /\ rpc = "check"
    /\ ridx' = 0
    /\ rlen' = Len(ring)
    /\ rpc' = LoopHead(0, Len(ring))
    /\ polls' = [y \in Ids |-> 0]
    /\ took' = 0
    /\ UNCHANGED <<prog, life, sweep, env, parked, ring, obs, ahead>>

RingNext ==
    \/ RingPoll
    \/ RingSweep

SpecRing == InitRing /\ [][RingNext]_vars

TypeOK ==
    /\ pc \in {"idle", "loop", "jobs", "check", "done"}
    /\ started \in BOOLEAN
    /\ nregs \in 0..MaxJobs
    /\ Len(items) <= MaxJobs
    /\ sent \in 0..nitems
    /\ not_ready \in BOOLEAN
    /\ parked \in BOOLEAN

\* ------------------------------------------------------------ properties
\* the step polls the job at idx and removes it: the collection shrinks by it
\* alone (jobs registered during the step are added) and no polled job stays
JobRemoved ==
    /\ Len(items') = Len(items) - 1 + (nregs' - nregs)
    /\ Unpolled(items') = Unpolled(items) - 1 + (nregs' - nregs)

\* the step polls the job at idx and keeps it where it is
JobKept ==
    /\ Len(items') = Len(items) + (nregs' - nregs)
    /\ idx' = idx + 1
    /\ items'[idx + 1] = [items[idx + 1] EXCEPT !.polled = 1]

\* the step polls a job of one of the kinds ks with outcome out
JobYields(ks, out) ==
    /\ pc = "jobs"
    /\ idx < Len(items)
    /\ items[idx + 1].kind \in ks
    /\ lastPoll'.out = out

\* C1: call is given the items of the primary stream, each once and in the
\* order the stream yielded them, and when finished is first invoked call
\* has been given every item the stream yields.
C1_ItemsInOrderBeforeFinished ==
    /\ primCalls = [k \in 1..sent |-> k]
    /\ nfinished > 0 => (ended /\ firstFin = sent /\ Len(primCalls) = sent)

\* the stream yielded NItems items and then its end, call and finished
\* returned NotReady each time
C1_Witness ==
    /\ nfinished = 1
    /\ sent = NItems
    /\ Len(primCalls) = NItems
    /\ lastCall.fn = "finished"
    /\ lastCall.ret = "NotReady"
    /\ pc \in {"jobs", "check"}

\* C2: over the lifetime of a Context finished is invoked exactly once, when
\* the primary stream reports its end: not before, and not again.
C2_FinishedExactlyOnce ==
    nfinished = (IF ended THEN 1 ELSE 0)

\* C3: start is invoked exactly once, on the first invocation of poll, and
\* before it the primary stream and the jobs were not polled and call and
\* finished were not invoked; later invocations of poll do not invoke it.
C3_StartOnceBeforeAll ==
    /\ nstart = (IF started THEN 1 ELSE 0)
    /\ pc # "idle" => started
    /\ ~started => /\ primPolls = 0 /\ sent = 0 /\ ~ended
                   /\ lastPoll = NoPoll
                   /\ lastCall = NoCall /\ ncalls = 0
                   /\ nfinished = 0 /\ primCalls = << >>
                   /\ ret = NoResult

\* a later invocation of poll: no job was registered and the primary stream
\* yielded nothing, so no sweep made progress and the sweep now beginning
\* (no callback recorded in it, not even start) was entered by poll again
C3_Witness ==
    /\ pc = "loop"
    /\ nstart = 1
    /\ lastCall = NoCall
    /\ nregs = 0 /\ sent = 0 /\ ~ended

\* C4: when call or finished returns Ok(Ready) or Err, for the primary stream
\* or for a job, poll returns that result at once (the callback is the last
\* thing recorded, and for a job the poll that triggered it is the last job
\* poll), and once poll has returned it nothing is polled or invoked.
C4_DefinitiveResultEndsPoll ==
    /\ [](lastCall.ret \in {"Ok", "Err"} =>
            /\ pc = "done"
            /\ ret = [tag |-> lastCall.ret, by |-> lastCall.fn, src |-> lastCall.src]
            /\ IF lastCall.src = "primary" THEN lastPoll = NoPoll
               ELSE lastPoll.kind = lastCall.src)
    /\ [][pc # "done"]_vars

\* call, invoked for a job, returned Err
C4_Witness ==
    /\ pc = "done"
    /\ lastCall.fn = "call"
    /\ lastCall.src \in Kinds
    /\ lastCall.ret = "Err"
    /\ ret.tag = "Err"

\* C5: when the poll of a spawned job yields an error the job is removed, no
\* callback is invoked, poll does not return, and no other job leaves the
\* collection: the sweep goes on.
C5_SpawnedErrorIsSilent ==
    [][JobYields({"CtxSpawnFuture"}, "Err") =>
          /\ ncalls' = ncalls
          /\ lastCall' = lastCall
          /\ JobRemoved
          /\ lost' = lost
          /\ pc' \in {"jobs", "check"}
          /\ ret' = NoResult]_vars

\* a spawned job failed while another job is registered
C5_Witness ==
    /\ lastPoll.kind = "CtxSpawnFuture"
    /\ lastPoll.out = "Err"
    /\ pc \in {"jobs", "check"}
    /\ Len(items) >= 1

\* C6: when the poll of a Future, CtxFuture, Stream or FutStream job yields an
\* error, call is invoked once with Err for that job, and when call returns
\* NotReady the job is removed from the collection.
C6_JobErrorForwardedThenRemoved ==
    [][JobYields({"Future", "CtxFuture", "Stream", "FutStream"}, "Err") =>
          /\ ncalls' = ncalls + 1
          /\ lastCall'.fn = "call"
          /\ lastCall'.src = items[idx + 1].kind
          /\ lastCall'.arg = "Err"
          /\ lastCall'.ret = "NotReady" => (JobRemoved /\ pc' \in {"jobs", "check"})]_vars

\* a plain task failed, call returned NotReady
C6_Witness ==
    /\ lastPoll.kind = "Future"
    /\ lastPoll.out = "Err"
    /\ lastCall = Invocation("call", "Future", "Err", 0, "NotReady")
    /\ pc \in {"jobs", "check"}

C8_EachJobPolledOncePerSweep ==
    /\ \A k \in 1..Len(items) : items[k].polled <= 1
    /\ pc = "jobs" => (idx < Len(items) /\ items[idx + 1].polled = 0)
    /\ pc = "check" => (lost = 0 /\ \A k \in 1..Len(items) : items[k].polled = 1)

\* a job was removed and the last one swapped into its place, nothing was
\* registered during the job polls, and the sweep ended with jobs left
C8_Witness ==
    /\ pc = "check"
    /\ "swapped" \in progress
    /\ "registered" \notin progress
    /\ Len(items) >= 1
    /\ \A k \in 1..Len(items) : items[k].polled = 1

\* C9: when a FutStream job resolves, a Stream job takes its place at the
\* same index, the length and the other jobs are unchanged, nothing is
\* forwarded and the new job is the next polled; and every Stream job, the
\* resolved one as one registered directly, has each item forwarded to call
\* and stays, is removed without a callback at its end, and has an error
\* forwarded to call and is then removed.
C9_ResolvedStreamIsAStream ==
    /\ [][JobYields({"FutStream"}, "Ready") =>
            /\ Len(items') = Len(items)
            /\ idx' = idx /\ len' = len /\ pc' = "jobs"
            /\ items'[idx + 1] = [kind |-> "Stream", polled |-> 0, deferred |-> TRUE]
            /\ \A k \in 1..Len(items) : k # idx + 1 => items'[k] = items[k]
            /\ ncalls' = ncalls /\ lastCall' = lastCall]_vars
    /\ [][JobYields({"Stream"}, "Item") =>
            /\ ncalls' = ncalls + 1
            /\ lastCall'.fn = "call" /\ lastCall'.src = "Stream" /\ lastCall'.arg = "Ok"
            /\ lastCall'.ret = "NotReady" => JobKept]_vars
    /\ [][JobYields({"Stream"}, "End") =>
            /\ ncalls' = ncalls /\ lastCall' = lastCall
            /\ JobRemoved]_vars
    /\ [][JobYields({"Stream"}, "Err") =>
            /\ ncalls' = ncalls + 1
            /\ lastCall'.fn = "call" /\ lastCall'.src = "Stream" /\ lastCall'.arg = "Err"
            /\ lastCall'.ret = "NotReady" => JobRemoved]_vars
    /\ [][JobYields({"Stream"}, "NotReady") =>
            /\ ncalls' = ncalls /\ lastCall' = lastCall
            /\ JobKept]_vars

\* the stream a FutStream resolved to yielded an item, call returned NotReady
\* and the stream is still registered
C9_Witness ==
    /\ lastPoll.kind = "Stream"
    /\ lastPoll.deferred
    /\ lastPoll.out = "Item"
    /\ lastCall = Invocation("call", "Stream", "Ok", 0, "NotReady")
    /\ pc \in {"jobs", "check"}
    /\ \E k \in 1..Len(items) : items[k].kind = "Stream" /\ items[k].deferred

\* C10: poll returns NotReady only at the end of a sweep without progress:
\* when the sweep ends with not_ready set, the primary stream reported
\* NotReady in it and no job produced a value or was removed in it.
C10_SuspendsOnlyWithoutProgress ==
    (pc = "check" /\ not_ready) =>
        /\ primOut = "NotReady"
        /\ "produced" \notin progress
        /\ "removed" \notin progress

\* C11: in the doubling scenario (the primary stream yields 1, 2, 3 and ends,
\* call doubles into an accumulator and returns NotReady, finished returns
\* the accumulator) no callback is invoked but for the primary stream, the
\* end of the stream ends the poll, and the poll then has returned the
\* success of finished, with the accumulator <<2, 4, 6>>, after three
\* invocations of call followed by one of finished.
C11_DoublingScenario ==
    /\ lastCall.src \in {"none", "primary"}
    /\ lastCall.arg # "Err"
    /\ ended => pc = "done"
    /\ pc = "done" =>
          /\ ret = [tag |-> "Ok", by |-> "finished", src |-> "primary"]
          /\ primCalls = ScenarioItems
          /\ Doubled(primCalls) = <<2, 4, 6>>
          /\ firstFin = 3
          /\ nfinished = 1
          /\ Len(primCalls) + nfinished = 4

\* the scenario has run to its end
C11_Witness ==
    /\ pc = "done"
    /\ ret.tag = "Ok"
    /\ sent = 3
    /\ Doubled(primCalls) = <<2, 4, 6>>

\* C12: when the poll of a sink job yields a value or an error, poll returns
\* it at once as its own result, no callback is invoked for it and nothing is
\* polled after it; when the poll of a sink job is NotReady the sink stays
\* where it is and the sweep goes on.
C12_SinkResultEndsPoll ==
    /\ [][JobYields({"Sink"}, "Ready") =>
            /\ pc' = "done"
            /\ ret' = [tag |-> "Ok", by |-> "sink", src |-> "Sink"]
            /\ ncalls' = ncalls /\ lastCall' = lastCall]_vars
    /\ [][JobYields({"Sink"}, "Err") =>
            /\ pc' = "done"
            /\ ret' = [tag |-> "Err", by |-> "sink", src |-> "Sink"]
            /\ ncalls' = ncalls /\ lastCall' = lastCall]_vars
    /\ [][JobYields({"Sink"}, "NotReady") =>
            /\ JobKept
            /\ pc' \in {"jobs", "check"}
            /\ ncalls' = ncalls /\ lastCall' = lastCall]_vars
    /\ [][ret.by # "sink"]_vars

\* a sink failed after another job had been polled in the sweep
C12_Witness ==
    /\ pc = "done"
    /\ ret = [tag |-> "Err", by |-> "sink", src |-> "Sink"]
    /\ lastPoll.kind = "Sink"
    /\ lastPoll.at >= 1

\* the shapes an item of the collection can have
Shapes ==
    [kind : Kinds, polled : {0, 1}, deferred : BOOLEAN]

\* how many items of its have the shape c
Count(its, c) == Cardinality({k \in 1..Len(its) : its[k] = c})

\* C13: a job leaves the collection only through its own poll, when that
\* reports completion, the end or an error (a FutStream that resolves is
\* replaced), or when poll returns a definitive result: a step that polls no
\* job keeps every job in its place, a step that polls a job keeps every
\* other job, and a job whose poll yields NotReady or an item stays where it
\* is.
C13_JobLeavesOnlyByItsOwnPoll ==
    [][pc' # "done" =>
          IF pc = "jobs" /\ idx < Len(items)
          THEN LET j == items[idx + 1]
                   gone == lastPoll'.out \in {"Ready", "End", "Err"}
               IN  /\ ~gone => JobKept
                   /\ Len(items') >= Len(items) + (nregs' - nregs) - (IF gone THEN 1 ELSE 0)
                   /\ \A c \in Shapes :
                         Count(items', c) >= Count(items, c) - (IF j = c THEN 1 ELSE 0)
          ELSE /\ Len(items') >= Len(items)
               /\ \A k \in 1..Len(items) :
                     /\ items'[k].kind = items[k].kind
                     /\ items'[k].deferred = items[k].deferred]_vars

\* a sweep ended in which one job was removed and the last job, swapped
\* into its place, reported NotReady: it is still registered
C13_Witness ==
    /\ pc = "check"
    /\ "swapped" \in progress
    /\ lastPoll.out = "NotReady"
    /\ Len(items) >= 1
    /\ lost = 0

\* C14: the item of a Stream job is forwarded to call once and the job
\* stays, its end removes it without a callback; the value of a Future or
\* CtxFuture job is forwarded to call once and the job is removed; a spawned
\* job that completes is removed without a callback.
C14_ValuesForwardedByKind ==
    /\ [][JobYields({"Stream"}, "Item") =>
            /\ ncalls' = ncalls + 1
            /\ lastCall'.fn = "call" /\ lastCall'.src = "Stream" /\ lastCall'.arg = "Ok"
            /\ lastCall'.ret = "NotReady" => (JobKept /\ pc' \in {"jobs", "check"})]_vars
    /\ [][JobYields({"Stream"}, "End") =>
            /\ ncalls' = ncalls /\ lastCall' = lastCall
            /\ JobRemoved /\ pc' \in {"jobs", "check"}]_vars
    /\ [][JobYields({"Future", "CtxFuture"}, "Ready") =>
            /\ ncalls' = ncalls + 1
            /\ lastCall'.fn = "call" /\ lastCall'.src = items[idx + 1].kind
            /\ lastCall'.arg = "Ok"
            /\ lastCall'.ret = "NotReady" => (JobRemoved /\ pc' \in {"jobs", "check"})]_vars
    /\ [][JobYields({"CtxSpawnFuture"}, "Ready") =>
            /\ ncalls' = ncalls /\ lastCall' = lastCall
            /\ JobRemoved /\ pc' \in {"jobs", "check"}]_vars

\* a stream registered as such yielded an item, call returned NotReady and
\* the stream is still registered
C14_Witness ==
    /\ lastPoll.kind = "Stream"
    /\ ~lastPoll.deferred
    /\ lastPoll.out = "Item"
    /\ lastCall = Invocation("call", "Stream", "Ok", 0, "NotReady")
    /\ pc \in {"jobs", "check"}
    /\ \E k \in 1..Len(items) :
          items[k] = [kind |-> "Stream", polled |-> 1, deferred |-> FALSE]

\* C15: in a sweep the primary stream is polled once and before any job: no
\* job has been polled and neither call nor finished invoked when the primary stream is
\* about to be polled, it has been polled exactly once while the jobs are
\* polled, and when the first job is about to be polled the callback for the
\* outcome of the primary stream has been invoked and has returned.
C15_PrimaryPolledFirst ==
    /\ primPolls <= 1
    /\ pc = "loop" =>
          /\ primPolls = 0 /\ primOut = "none"
          /\ lastPoll = NoPoll
          /\ ncalls = 0
          /\ \A k \in 1..Len(items) : items[k].polled = 0
    /\ pc \in {"jobs", "check"} => (primPolls = 1 /\ primOut # "none")
    /\ lastPoll # NoPoll => primPolls = 1
    /\ (pc = "jobs" /\ lastPoll = NoPoll) =>
          IF primOut = "NotReady"
          THEN ncalls = 0
          ELSE /\ ncalls = 1
               /\ lastCall.src = "primary"
               /\ lastCall.fn = (IF primOut = "End" THEN "finished" ELSE "call")
               /\ lastCall.ret = "NotReady"

\* the primary stream yielded an item, call has returned NotReady and the
\* first job is about to be polled
C15_Witness ==
    /\ pc = "jobs"
    /\ idx = 0
    /\ lastPoll = NoPoll
    /\ primPolls = 1
    /\ primOut = "Item"
    /\ lastCall.src = "primary"
    /\ lastCall.ret = "NotReady"

\* how many items of its were polled in this sweep
Polled(its) == Len(its) - Unpolled(its)

C17_IndexInBounds ==
    /\ idx >= 0
    /\ len >= 0
    /\ idx <= len
    /\ pc = "jobs" => (len = Len(items) /\ idx < Len(items))
    /\ pc = "check" => (len = Len(items) /\ idx = len)

\* a sweep ended in which a FutStream was replaced by its stream, a job was
\* registered by a callback and a job was removed
C17_Witness ==
    /\ pc = "check"
    /\ {"replaced", "registered", "removed"} \subseteq progress
    /\ len = Len(items)

\* C18: under a scheduler that invokes poll again whenever a source whose
\* last poll reported NotReady becomes ready, the items of the primary
\* stream are all forwarded to call in the end, unless the stream ends or
\* poll returns a definitive result before: also after the stream has yielded
\* an error that call answered with NotReady.
C18_ItemsEventuallyForwarded ==
    <>(Len(primCalls) = nitems \/ ended \/ pc = "done")


\* the jobs of ring other than the stream that is followed
Others == {ring[k].id : k \in 1..Len(ring)} \ {obs}

\* C19, as stated: within one sweep at most one item of a secondary stream
\* is forwarded, so between two consecutive items taken from it every other
\* job registered at that time is polled: no job is left unpolled while the
\* stream yields two items
C19_PolledBetweenItems ==
    /\ took <= 1
    /\ \A y \in Others : ahead[y] <= 1

\* C19, amended: within one sweep each job is polled once and at most one
\* item of a secondary stream is forwarded; a removal that swaps the stream
\* forward lets it yield two items, and no more, between two polls of another
\* job
C19_OneItemPerSweep ==
    /\ took <= 1
    /\ \A y \in Ids : polls[y] <= 1
    /\ rpc = "check" => \A y \in Others \cup ({obs} \cap {ring[k].id : k \in 1..Len(ring)}) :
                           polls[y] = 1
    /\ \A y \in Others : ahead[y] <= 2

\* the followed stream has yielded two items since a job that is still in
\* the collection was polled, in two sweeps
C19_Witness ==
    /\ took = 1
    /\ \E y \in Others : ahead[y] = 2 /\ polls[y] = 0

\* poll is not running: it was not invoked, or has returned NotReady, or has
\* returned a definitive result
Returned == pc \in {"idle", "done"}

\* C20: if the sources have finitely many values ready (with at most nitems
\* items of the primary stream and MaxJobs registrations, if the stream jobs
\* yield an item finitely often), every invocation of poll returns after
\* finitely many sweeps, and every inner loop over the jobs ends
C20_PollReturns ==
    /\ <>[](lastPoll.out # "Item") => (~Returned ~> Returned)
    /\ pc = "jobs" ~> pc \in {"check", "done"}

\* poll has returned NotReady after the sweeps that forwarded every item of
\* the primary stream, with jobs left in the collection
C20_Witness ==
    /\ pc = "idle"
    /\ ret = NotReadyResult
    /\ nitems > 0
    /\ Len(primCalls) = nitems
    /\ Len(items) > 0
====
